---- MODULE Spec2Model ----
(***************************************************************************)
(* RtcEventAudioSendStreamConfig                                           *)
(* (logging/rtc_event_log/events/rtc_event_audio_send_stream_config.cc):   *)
(* the event record that owns a StreamConfig through a unique_ptr, its two *)
(* constructors, its destructor, GetType, IsConfigEvent and Copy.          *)
(*                                                                         *)
(* Storage is explicit: a heap of StreamConfig cells addressed by the      *)
(* value a unique_ptr holds, and a table of event objects.  Copy is split  *)
(* at its two statements (line 40, line 41) and its return, where the      *)
(* local config_copy goes out of scope.                                    *)
(*                                                                         *)
(* Spec   : one thread (the producer) drives every operation.              *)
(* SpecMT : the producer and the logging thread, each operating on the     *)
(*          events it owns; an event changes owner by Handoff.             *)
(***************************************************************************)
EXTENDS Integers, Sequences, FiniteSets

VARIABLES now, caller_config, heap, events, nextId, born, th, obs, crashed

vars == <<now, caller_config, heap, events, nextId, born, th, obs, crashed>>

(* ------------------------------ bounds --------------------------------- *)

\* events created in one run (constructed or copied)
MaxEvents == 3
\* last value of the clock
MaxTime == 2

(* ------------------------------ domains -------------------------------- *)

NULL == 0
NumAddr == MaxEvents + 3
Addr == 1..NumAddr
EventId == 1..MaxEvents
Threads == {"producer", "logger"}
EventTypes == {"AudioSendStreamConfig", "AudioReceiveStreamConfig"}

Ssrcs == {42, 43}
CodecLists == {<<"opus">>}
StreamConfig == [remote_ssrc : Ssrcs, codecs : CodecLists]
DefaultStreamConfig == [remote_ssrc |-> 0, codecs |-> <<>>]

FreeCell == [live |-> FALSE, cfg |-> DefaultStreamConfig]
NoEvent == [state |-> "none", owner |-> "producer", timestamp_us_ |-> 0, config_ |-> NULL]
DeadEvent == [state |-> "dead", owner |-> "producer", timestamp_us_ |-> 0, config_ |-> NULL]
NoBirth == [from |-> 0, depth |-> 0, ts |-> 0, cfg |-> DefaultStreamConfig]
IdleThread == [pc |-> "idle", self |-> 0, config_copy |-> NULL, called_at |-> 0]
NoObs == [op |-> "none", type |-> "none", flag |-> FALSE]

FreeAddrs == {a \in Addr : ~heap[a].live}
\* the allocator hands out the lowest free cell, so a freed cell is reused at once
Malloc == {a \in FreeAddrs : \A b \in FreeAddrs : a <= b}
Allocated == {a \in Addr : heap[a].live}
Live == {e \in EventId : events[e].state = "live"}
Owned(t) == {e \in Live : events[e].owner = t}
InCopy == {t \in Threads : th[t].pc = "new"}
AllIdle == \A t \in Threads : th[t].pc = "idle"

(* --------------------------- pure operations --------------------------- *)

\* rtc::TimeMicros(), read by the base class's default constructor
TimeMicros == now

\* rtclog::StreamConfig's copy constructor: member by member, the codec
\* vector element by element
StreamConfigCopy(c) ==
  [remote_ssrc |-> c.remote_ssrc,
   codecs |-> [i \in 1..Len(c.codecs) |-> c.codecs[i]]]

\* rtc::MakeUnique<rtclog::StreamConfig>(c): a new cell at a holding a copy of c
MakeUnique(mem, a, c) == [mem EXCEPT ![a] = [live |-> TRUE, cfg |-> StreamConfigCopy(c)]]

\* ~unique_ptr: deletes the cell it holds, if any
Delete(mem, a) == IF a = NULL THEN mem ELSE [mem EXCEPT ![a] = FreeCell]

NotMoved(config) == config

\* what the caller's unique_ptr holds once it has been moved into the parameter
MovedFrom(config) == NULL

\* the base class: RtcEvent(int64_t timestamp_us) stores its argument,
\* RtcEvent() stores the clock's value
RtcEvent(timestamp_us) == [timestamp_us_ |-> timestamp_us]
RtcEventDefault == RtcEvent(TimeMicros)

\* line 20-22: config_(std::move(config)); the base is default-constructed
MoveCtor(config) == [timestamp_us_ |-> RtcEventDefault.timestamp_us_, config_ |-> config]

CopyCtorShallow(other, a) ==
  [obj |-> [timestamp_us_ |-> other.timestamp_us_, config_ |-> other.config_],
   mem |-> heap]

CopyCtorRestamp(other, a) ==
  [obj |-> [timestamp_us_ |-> RtcEventDefault.timestamp_us_, config_ |-> a],
   mem |-> MakeUnique(heap, a, heap[other.config_].cfg)]

CopyCtorDefaultConfig(other, a) ==
  [obj |-> [timestamp_us_ |-> other.timestamp_us_, config_ |-> a],
   mem |-> MakeUnique(heap, a, DefaultStreamConfig)]

\* line 24-27: RtcEvent(other.timestamp_us_),
\*             config_(rtc::MakeUnique<rtclog::StreamConfig>(*other.config_))
CopyCtor(other, a) ==
  [obj |-> [timestamp_us_ |-> RtcEvent(other.timestamp_us_).timestamp_us_, config_ |-> a],
   mem |-> MakeUnique(heap, a, heap[other.config_].cfg)]

\* line 29: the defaulted destructor destroys config_
Dtor(this) == Delete(heap, this.config_)

GetTypeOfSibling(this) == "AudioReceiveStreamConfig"

\* line 31-33
GetType(this) == "AudioSendStreamConfig"

\* line 35-37
IsConfigEvent(this) == TRUE

ReleaseReceiverConfig(t) == Delete(heap, events[th[t].self].config_)

\* line 42: config_copy goes out of scope
ReleaseTemp(t) == Delete(heap, th[t].config_copy)

(* ---------------------- storage a step reads or writes ----------------- *)

EventLoc(e) == [kind |-> "event", id |-> e]
ConfigLoc(a) == [kind |-> "config", id |-> a]
ConfigOf(e) == IF events[e].config_ = NULL THEN {} ELSE {ConfigLoc(events[e].config_)}

\* what the next step of thread t may read: idle, any accessor, payload read or
\* Copy on an event it owns; inside Copy, the receiver and its payload
Reads(t) ==
  IF crashed THEN {}
  ELSE IF th[t].pc = "idle"
    THEN UNION {{EventLoc(e)} \cup ConfigOf(e) : e \in Owned(t)}
  ELSE IF th[t].pc = "new"
    THEN {EventLoc(th[t].self)} \cup ConfigOf(th[t].self)
  ELSE {}

\* what the next step of thread t may write or free: idle, the destructor of an
\* event it owns (and, for the producer, the payload its handle holds); at the
\* return of Copy, the local config_copy
Writes(t) ==
  IF crashed THEN {}
  ELSE IF th[t].pc = "idle"
    THEN UNION {{EventLoc(e)} \cup ConfigOf(e) : e \in Owned(t)}
         \cup (IF t = "producer" /\ caller_config # NULL
                 THEN {ConfigLoc(caller_config)} ELSE {})
  ELSE IF th[t].pc = "ret"
    THEN {ConfigLoc(th[t].config_copy)}
  ELSE {}

(* ------------------------------- state --------------------------------- *)

\* now           the clock rtc::TimeMicros() reads
\* caller_config the producer's unique_ptr<rtclog::StreamConfig>
\* heap          the StreamConfig cells: allocated or not, and their content
\* events        the event objects: timestamp_us_, config_, and who owns them
\* nextId        the identity the next event created gets
\* born          history: what each live event was created from
\* th            each thread's position in Copy, its receiver and config_copy
\* obs           the value the last accessor call returned
\* crashed       the process faulted on a null dereference
TypeOK ==
  /\ now \in 0..MaxTime
  /\ caller_config \in Addr \cup {NULL}
  /\ heap \in [Addr -> [live : BOOLEAN, cfg : StreamConfig \cup {DefaultStreamConfig}]]
  /\ events \in [EventId -> [state : {"none", "live", "dead"}, owner : Threads,
                             timestamp_us_ : 0..MaxTime, config_ : Addr \cup {NULL}]]
  /\ nextId \in 1..(MaxEvents + 1)
  /\ born \in [EventId -> [from : EventId \cup {0}, depth : 0..MaxEvents, ts : 0..MaxTime,
                           cfg : StreamConfig \cup {DefaultStreamConfig}]]
  /\ th \in [Threads -> [pc : {"idle", "new", "ret"}, self : EventId \cup {0},
                         config_copy : Addr \cup {NULL}, called_at : 0..MaxTime]]
  /\ obs \in [op : {"none", "GetType", "IsConfigEvent"},
              type : {"none"} \cup EventTypes, flag : BOOLEAN]
  /\ crashed \in BOOLEAN

(* ------------------------------- Init ---------------------------------- *)

Init ==
  /\ now = 0
  /\ caller_config = NULL
  /\ heap = [a \in Addr |-> FreeCell]
  /\ events = [e \in EventId |-> NoEvent]
  /\ nextId = 1
  /\ born = [e \in EventId |-> NoBirth]
  /\ th = [t \in Threads |-> IdleThread]
  /\ obs = NoObs
  /\ crashed = FALSE

(* ------------------------------ actions -------------------------------- *)

\* the clock advances; only constructors yet to run can read it
Tick ==
  /\ ~crashed
  /\ now < MaxTime
  /\ nextId <= MaxEvents
  /\ now' = now + 1
  /\ UNCHANGED <<caller_config, heap, events, nextId, born, th, obs, crashed>>

\* the producer builds a StreamConfig and holds it in a unique_ptr
BuildPayload(c) ==
  /\ ~crashed
  /\ th["producer"].pc = "idle"
  /\ caller_config = NULL
  /\ \E a \in Malloc :
       /\ heap' = MakeUnique(heap, a, c)
       /\ caller_config' = a
  /\ UNCHANGED <<now, events, nextId, born, th, obs, crashed>>

\* the producer writes the payload its handle holds
MutatePayload(c) ==
  /\ ~crashed
  /\ th["producer"].pc = "idle"
  /\ caller_config # NULL
  /\ heap[caller_config].cfg # c
  /\ heap' = [heap EXCEPT ![caller_config] = [live |-> TRUE, cfg |-> c]]
  /\ UNCHANGED <<now, caller_config, events, nextId, born, th, obs, crashed>>

\* the producer's handle is reset or goes out of scope
ResetHandle ==
  /\ ~crashed
  /\ th["producer"].pc = "idle"
  /\ caller_config # NULL
  /\ heap' = Delete(heap, caller_config)
  /\ caller_config' = NULL
  /\ UNCHANGED <<now, events, nextId, born, th, obs, crashed>>

\* new RtcEventAudioSendStreamConfig(std::move(caller_config)); the handle may
\* be empty: the constructor checks nothing
Construct ==
  /\ ~crashed
  /\ th["producer"].pc = "idle"
  /\ nextId + Cardinality(InCopy) <= MaxEvents
  /\ LET obj == MoveCtor(caller_config) IN
       /\ events' = [events EXCEPT ![nextId] =
            [state |-> "live", owner |-> "producer",
             timestamp_us_ |-> obj.timestamp_us_, config_ |-> obj.config_]]
       /\ born' = [born EXCEPT ![nextId] =
            [from |-> 0, depth |-> 0, ts |-> now,
             cfg |-> IF caller_config = NULL THEN DefaultStreamConfig
                     ELSE heap[caller_config].cfg]]
  /\ caller_config' = MovedFrom(caller_config)
  /\ nextId' = nextId + 1
  /\ UNCHANGED <<now, heap, th, obs, crashed>>

\* Copy, line 40: auto config_copy = rtc::MakeUnique<rtclog::StreamConfig>(*config_);
\* with an empty config_ the dereference faults and the process stops
CopyBegin(t, e) ==
  /\ ~crashed
  /\ th[t].pc = "idle"
  /\ e \in Owned(t)
  /\ nextId + Cardinality(InCopy) <= MaxEvents
  /\ IF events[e].config_ = NULL
       THEN /\ crashed' = TRUE
            /\ UNCHANGED <<heap, th>>
       ELSE /\ \E a \in Malloc :
                 /\ heap' = MakeUnique(heap, a, heap[events[e].config_].cfg)
                 /\ th' = [th EXCEPT ![t] =
                      [pc |-> "new", self |-> e, config_copy |-> a, called_at |-> now]]
            /\ UNCHANGED crashed
  /\ UNCHANGED <<now, caller_config, events, nextId, born, obs>>

\* Copy, line 41: new RtcEventAudioSendStreamConfig(*this), wrapped for return
CopyNew(t) ==
  /\ ~crashed
  /\ th[t].pc = "new"
  /\ \E a \in Malloc :
       LET other == events[th[t].self]
           r == CopyCtor(other, a) IN
       /\ events' = [events EXCEPT ![nextId] =
            [state |-> "live", owner |-> t,
             timestamp_us_ |-> r.obj.timestamp_us_, config_ |-> r.obj.config_]]
       /\ heap' = r.mem
       /\ born' = [born EXCEPT ![nextId] =
            [from |-> th[t].self, depth |-> born[th[t].self].depth + 1,
             ts |-> born[th[t].self].ts, cfg |-> heap[other.config_].cfg]]
  /\ nextId' = nextId + 1
  /\ th' = [th EXCEPT ![t].pc = "ret"]
  /\ UNCHANGED <<now, caller_config, obs, crashed>>

\* Copy, line 42: the locals are destroyed and the call returns
CopyReturn(t) ==
  /\ ~crashed
  /\ th[t].pc = "ret"
  /\ heap' = ReleaseTemp(t)
  /\ th' = [th EXCEPT ![t] = IdleThread]
  /\ UNCHANGED <<now, caller_config, events, nextId, born, obs, crashed>>

\* the owner of e deletes it
Destroy(t, e) ==
  /\ ~crashed
  /\ th[t].pc = "idle"
  /\ e \in Owned(t)
  /\ heap' = Dtor(events[e])
  /\ events' = [events EXCEPT ![e] = DeadEvent]
  /\ born' = [born EXCEPT ![e] = NoBirth]
  /\ UNCHANGED <<now, caller_config, nextId, th, obs, crashed>>

CallGetType(t, e) ==
  /\ ~crashed
  /\ th[t].pc = "idle"
  /\ e \in Owned(t)
  /\ obs' = [op |-> "GetType", type |-> GetType(events[e]), flag |-> FALSE]
  /\ UNCHANGED <<now, caller_config, heap, events, nextId, born, th, crashed>>

CallIsConfigEvent(t, e) ==
  /\ ~crashed
  /\ th[t].pc = "idle"
  /\ e \in Owned(t)
  /\ obs' = [op |-> "IsConfigEvent", type |-> "none", flag |-> IsConfigEvent(events[e])]
  /\ UNCHANGED <<now, caller_config, heap, events, nextId, born, th, crashed>>

\* the producer passes an event it owns to the logging thread
Handoff(e) ==
  /\ ~crashed
  /\ th["producer"].pc = "idle"
  /\ e \in Owned("producer")
  /\ events' = [events EXCEPT ![e].owner = "logger"]
  /\ UNCHANGED <<now, caller_config, heap, nextId, born, th, obs, crashed>>

Next ==
  \/ Tick
  \/ \E c \in StreamConfig : BuildPayload(c)
  \/ \E c \in StreamConfig : MutatePayload(c)
  \/ ResetHandle
  \/ Construct
  \/ \E e \in EventId : CopyBegin("producer", e)
  \/ CopyNew("producer")
  \/ CopyReturn("producer")
  \/ \E e \in EventId : Destroy("producer", e)
  \/ \E e \in EventId : CallGetType("producer", e)
  \/ \E e \in EventId : CallIsConfigEvent("producer", e)

Spec == Init /\ [][Next]_vars

NextMT ==
  \/ \E c \in StreamConfig : BuildPayload(c)
  \/ \E c \in StreamConfig : MutatePayload(c)
  \/ ResetHandle
  \/ Construct
  \/ \E t \in Threads, e \in EventId : CopyBegin(t, e)
  \/ \E t \in Threads : CopyNew(t)
  \/ \E t \in Threads : CopyReturn(t)
  \/ \E t \in Threads, e \in EventId : Destroy(t, e)
  \/ \E t \in Threads, e \in EventId : CallGetType(t, e)
  \/ \E t \in Threads, e \in EventId : CallIsConfigEvent(t, e)
  \/ \E e \in EventId : Handoff(e)

SpecMT == Init /\ [][NextMT]_vars

(* ------------------------------ properties ----------------------------- *)

\* config_ != nullptr, *config_, and whether e was made by Copy
HasPayload(e) == events[e].config_ # NULL
PayloadOf(e) == heap[events[e].config_]
IsCopy(e) == born[e].from # 0

\* C1: no two distinct live events own the same payload storage: the cell a
\* live event's config_ holds is allocated, and no other live event, no
\* producer handle and no local of a running Copy holds it.
C1_NoSharedPayload ==
  \A e \in Live :
    HasPayload(e) =>
      /\ PayloadOf(e).live
      /\ \A f \in Live \ {e} : events[f].config_ # events[e].config_
      /\ caller_config # events[e].config_
      /\ \A t \in Threads : th[t].config_copy # events[e].config_

C1_Witness ==
  \E e \in Live, d \in Live, r \in Live :
    /\ born[d].from = e /\ born[e].from = 0 /\ born[r].from = 0 /\ r # e
    /\ HasPayload(e) /\ HasPayload(d) /\ HasPayload(r)
    /\ PayloadOf(r).cfg # PayloadOf(e).cfg

\* C2: a step that destroys an event x releases x's payload and leaves every
\* other live event live, with the same timestamp, the same payload cell,
\* still allocated, holding the same content, whether x is an original or a
\* duplicate.
C2_DestroyLeavesOthers ==
  [][\A x \in Live :
       events'[x].state = "dead" =>
         /\ HasPayload(x) => ~heap'[events[x].config_].live
         /\ \A y \in Live \ {x} :
              /\ events'[y] = events[y]
              /\ HasPayload(y) =>
                   (PayloadOf(y).live /\ heap'[events[y].config_] = PayloadOf(y))]_vars

C2_Witness ==
  \E d \in Live :
    /\ born[d].depth = 2
    /\ events[born[d].from].state = "dead"
    /\ Live = {d}
    /\ PayloadOf(d).live
    /\ PayloadOf(d).cfg = born[d].cfg
    /\ events[d].timestamp_us_ = born[d].ts

\* C3: every duplicate, at any depth, carries the capture time of the event
\* its chain of copies started from, whatever the clock showed when Copy ran.
C3_CopyKeepsTimestamp ==
  \A d \in Live : IsCopy(d) => events[d].timestamp_us_ = born[d].ts

C3_Witness ==
  \E t \in Threads :
    /\ th[t].pc = "ret"
    /\ born[nextId - 1].depth = 2
    /\ events[nextId - 1].timestamp_us_ < th[t].called_at

\* C4: the payload of a duplicate holds the content its receiver's payload
\* held when Copy ran, in a cell of its own.
C4_CopyKeepsContent ==
  \A d \in Live :
    IsCopy(d) => (HasPayload(d) /\ PayloadOf(d).live /\ PayloadOf(d).cfg = born[d].cfg)

C4_Witness ==
  \E d \in Live :
    /\ born[d].from \in Live
    /\ AllIdle
    /\ PayloadOf(d).cfg = [remote_ssrc |-> 42, codecs |-> <<"opus">>]
    /\ PayloadOf(born[d].from).cfg = PayloadOf(d).cfg
    /\ events[d].config_ # events[born[d].from].config_

\* C5: GetType returns AudioSendStreamConfig and IsConfigEvent returns true for
\* every live event, constructed or copied, and so does every call made.
C5_TypeAndConfigFlag ==
  /\ \A e \in Live :
       GetType(events[e]) = "AudioSendStreamConfig" /\ IsConfigEvent(events[e]) = TRUE
  /\ obs.op = "GetType" => obs.type = "AudioSendStreamConfig"
  /\ obs.op = "IsConfigEvent" => obs.flag = TRUE

C5_Witness ==
  /\ obs.op = "GetType"
  /\ \E d \in Live : born[d].depth = 2 /\ HasPayload(d)

\* C6: a construction leaves the caller's handle empty and the new event
\* holding the payload the handle held; whatever the producer's handle holds
\* afterwards is the payload of no event, and a write or release through the
\* handle changes the payload of no event.
C6_OwnershipTransferred ==
  [][/\ (nextId' = nextId + 1 /\ born'[nextId].from = 0) =>
          (caller_config' = NULL /\ events'[nextId].config_ = caller_config)
     /\ caller_config' # NULL =>
          \A e \in EventId :
            events'[e].state = "live" => events'[e].config_ # caller_config'
     /\ (caller_config # NULL /\ heap'[caller_config] # heap[caller_config]) =>
          \A e \in Live : HasPayload(e) => heap'[events[e].config_] = PayloadOf(e)]_vars

C6_Witness ==
  \E e \in Live, d \in Live :
    /\ born[e].from = 0 /\ born[d].from = e
    /\ HasPayload(e)
    /\ caller_config # NULL
    /\ heap[caller_config].cfg # PayloadOf(e).cfg
    /\ PayloadOf(d).cfg = PayloadOf(e).cfg

\* C7: every live event holds a payload, and no Copy stops for lack of one.
C7_AlwaysHasPayload ==
  /\ \A e \in Live : HasPayload(e)
  /\ ~crashed

\* C8: no step changes the timestamp, the payload cell or the payload content
\* of an event that is live before and after it, and the receiver of a running
\* Copy stays live.
C8_Immutable ==
  [][/\ \A e \in Live :
          events'[e].state = "live" =>
            /\ events'[e].timestamp_us_ = events[e].timestamp_us_
            /\ events'[e].config_ = events[e].config_
            /\ HasPayload(e) => heap'[events[e].config_] = PayloadOf(e)
     /\ \A t \in Threads :
          th[t].pc # "idle" => events'[th[t].self].state = "live"]_vars

C8_Witness ==
  /\ AllIdle
  /\ obs.op = "IsConfigEvent"
  /\ \E d \in Live : born[d].from \in Live /\ PayloadOf(born[d].from).live

\* C9: the next steps of two different threads never conflict: none writes or
\* frees storage the other may read, write or free; and what a thread reads
\* from an event it owns is what the event was created with.
C9_RaceFree ==
  /\ \A t \in Threads, u \in Threads :
       t # u => Writes(t) \cap (Reads(u) \cup Writes(u)) = {}
  /\ \A e \in Live :
       /\ events[e].timestamp_us_ = born[e].ts
       /\ HasPayload(e) => (PayloadOf(e).live /\ PayloadOf(e).cfg = born[e].cfg)

C9_Witness ==
  \E e \in Owned("producer"), d \in Owned("logger") :
    /\ born[d].from = e
    /\ th["logger"].pc = "new" /\ th["logger"].self = d
    /\ th["producer"].pc = "idle"

\* C10: between operations there are as many allocated payloads, the one in
\* the producer's handle aside, as live events; inside Copy the local
\* config_copy is the payload of no event.
C10_PayloadsMatchEvents ==
  /\ (AllIdle /\ ~crashed) =>
       Cardinality(Allocated \ {caller_config}) = Cardinality(Live)
  /\ \A t \in Threads, e \in Live :
       th[t].pc # "idle" => events[e].config_ # th[t].config_copy

====
